---------------------------- MODULE Spec2Model ----------------------------
(***************************************************************************)
(* The MCP HTTP bridge (src/mcp_http_bridge.py, src/run_bridge.py) and the *)
(* tool subprocesses it drives (src/time-tool/tool.py,                     *)
(* src/weather-server/server.py), as one state machine.                    *)
(*                                                                         *)
(* Unit 0 is the startup discovery of create_app; units 1..NumReq are HTTP *)
(* requests.  Every unit that gets as far as subprocess.Popen owns the     *)
(* subprocess, pipe, reader thread and stdout_buffer of the same index.    *)
(***************************************************************************)
EXTENDS Naturals, Sequences, FiniteSets

(* ------------------------------ bounds -------------------------------- *)

\* number of HTTP requests the clients send in one run
NumReq == 2

\* number of lines a client writes to a tool it drives by itself
MaxFeed == 3

Reqs == 1..NumReq
Units == 0..NumReq

(* ------------------------------ values -------------------------------- *)

\* a key that a JSON object does not have
Absent == "<absent>"

\* property names the request bodies and input schemas of the model use
PropNames == {"location", "msg", "count"}

\* One tool of a description: name, declared properties (name, type) and
\* the "required" list.
TimeTool ==
    [name |-> "get-time",
     props |-> << <<"location", "string">> >>,
     required |-> <<"location">>]

WeatherTool ==
    [name |-> "get-forecast",
     props |-> << <<"location", "string">> >>,
     required |-> <<"location">>]

\* a tool another program may advertise: a string property that is not in
\* the required list and a property that is not a string
EchoTool ==
    [name |-> "echo",
     props |-> << <<"msg", "string">>, <<"count", "integer">> >>,
     required |-> << >>]

\* the tools lists of the descriptions a subprocess may print
TimeTools == <<TimeTool>>
WeatherTools == <<WeatherTool>>
MultiTools == <<EchoTool, TimeTool>>

\* the outputs (JSON objects) a tool-result may carry
Out(loc, data, err) == [location |-> loc, data |-> data, error |-> err]
EmptyOutput == Out(Absent, Absent, Absent)

\* the error strings of the model, as sequences of characters; "location"
\* and "boom" stand for runs of letters
Boom == <<"boom">>
ErrStrings ==
    {Boom,
     <<"'", "location", "'">>,
     <<"\"", "'">>,
     <<"b", "\\", "b">>,
     <<"b", "\n">>}

\* One line on a subprocess's stdout.
\*   kind: "object" (a JSON object), "nonobject" (valid JSON that is not an
\*   object, e.g. []), "invalid" (not JSON), "blank" (only a newline) and,
\*   once stripped by the reader, "empty".
Line(kind, type, hasOutput, output, error, tools) ==
    [kind |-> kind, type |-> type, hasOutput |-> hasOutput,
     output |-> output, error |-> error, tools |-> tools]

DescLine(tools) == Line("object", "tool-description", FALSE, EmptyOutput, << >>, tools)
ResultLine(o) == Line("object", "tool-result", TRUE, o, << >>, << >>)
ErrorLine(e) == Line("object", "error", FALSE, EmptyOutput, e, << >>)
NoOutputLine == Line("object", "tool-result", FALSE, EmptyOutput, << >>, << >>)
NoTypeLine == Line("object", Absent, FALSE, EmptyOutput, << >>, << >>)
NonObjectLine == Line("nonobject", Absent, FALSE, EmptyOutput, << >>, << >>)
InvalidLine == Line("invalid", Absent, FALSE, EmptyOutput, << >>, << >>)
BlankLine == Line("blank", Absent, FALSE, EmptyOutput, << >>, << >>)
EmptyLine == Line("empty", Absent, FALSE, EmptyOutput, << >>, << >>)


\* The programs --server-path may name.  A tool prints its description and
\* answers each tool-call as handle_call says; any other program is taken
\* to print the lines of "start" when it starts and the lines of "reply"
\* for each line it reads.
Program(kind, start, reply) == [kind |-> kind, start |-> start, reply |-> reply]
TimeProgram == Program("time", <<DescLine(TimeTools)>>, << >>)
WeatherProgram == Program("weather", <<DescLine(WeatherTools)>>, << >>)

StaleOutput == Out("Oslo", "stale", Absent)
OtherOutputs == {Out("Paris", "noon", Absent), EmptyOutput}
Starts ==
    {<< >>}
        \cup {<<l>> : l \in {DescLine(TimeTools), DescLine(MultiTools), ErrorLine(Boom),
                             NonObjectLine, InvalidLine, BlankLine}}
ReplyLines ==
    {ResultLine(o) : o \in OtherOutputs}
        \cup {ErrorLine(Boom), NoOutputLine, NoTypeLine, NonObjectLine, InvalidLine, BlankLine}
OtherReplies == {<< >>} \cup {<<l>> : l \in ReplyLines}

\* a program that prints its description when first run and a line that is
\* no JSON (a warning, a traceback) in its place on every later run
FlakyProgram ==
    Program("flaky", <<DescLine(TimeTools)>>, <<ResultLine(Out("Paris", "noon", Absent))>>)

\* a program whose tools change after the bridge has started (the script
\* is replaced on disk): every later run describes other tools
FickleProgram ==
    Program("fickle", <<DescLine(TimeTools)>>, <<ResultLine(Out("Paris", "noon", Absent))>>)

\* a program that prints a result right after its description, whatever it
\* is sent
StaleProgram ==
    Program("other", <<DescLine(TimeTools), ResultLine(StaleOutput)>>, << >>)

Programs ==
    {TimeProgram, WeatherProgram, FlakyProgram, FickleProgram, StaleProgram}
        \cup {Program("other", s, << >>) : s \in Starts}
        \cup {Program("other", <<DescLine(MultiTools)>>, <<ResultLine(o)>>) : o \in OtherOutputs}
        \cup {Program("other", <<DescLine(TimeTools)>>, r) : r \in OtherReplies}
        \cup {Program("other", <<DescLine(TimeTools)>>, <<ErrorLine(e)>>) : e \in ErrStrings}

\* the data the external services give a tool for a location
ToolData == {"noon", "dusk"}

\* request bodies: JSON objects over PropNames with string values
Body(loc, msg, count) == [location |-> loc, msg |-> msg, count |-> count]
NoInput == Body(Absent, Absent, Absent)

\* a request: its path, its JSON body and its query parameter "tool"
Request(path, body, query) == [path |-> path, body |-> body, query |-> query]
NoRequest == Request(Absent, NoInput, Absent)

\* the requests the clients send
Requests ==
    {Request("get-time", Body("Paris", Absent, Absent), Absent),
     Request("get-time", Body("Tokyo", Absent, Absent), "rm"),
     Request("get-time", NoInput, Absent),
     Request("get-forecast", Body("Paris", Absent, Absent), Absent),
     Request("echo", Body(Absent, "hi", "3"), Absent),
     Request("echo", Body(Absent, "hi", Absent), Absent),
     Request("echo", Body(Absent, Absent, "3"), Absent)}

ToolCall(tool, input) == [tool |-> tool, input |-> input]

\* the other lines a client may write to a tool: "invalid" (not JSON, a
\* blank line), "nonobject" (JSON that is no object), "other" (an object
\* whose type is not tool-call), "nokey" (a tool-call without its tool)
Junk(kind) == [junk |-> kind]
JunkKinds == {"invalid", "nonobject", "other", "nokey"}
IsCall(line) == DOMAIN line = {"tool", "input"}

\* the lines the client of a tool writes
InputLines ==
    {ToolCall(t, i) : t \in {"get-time", "get-forecast", "rm"},
                      i \in {Body("Paris", Absent, Absent), NoInput}}
        \cup {Junk(k) : k \in JunkKinds}

Resp(status, detail, output) == [status |-> status, detail |-> detail, output |-> output]
NoResp == Resp(0, << >>, EmptyOutput)

(* --------------------------- pure functions --------------------------- *)

HasChar(s, c) == \E i \in 1..Len(s) : s[i] = c

\* sub occurs in s as a run of consecutive characters
Contains(s, sub) ==
    \E i \in 0..(Len(s) - Len(sub)) :
        \A j \in 1..Len(sub) : s[i + j] = sub[j]

\* Python's repr of a str: single quotes unless the string has a single
\* quote and no double quote; the backslash, the chosen quote and the
\* newline are escaped
QuoteOf(s) == IF HasChar(s, "'") /\ ~HasChar(s, "\"") THEN "\"" ELSE "'"

RECURSIVE Escape(_, _)
Escape(s, q) ==
    IF s = << >> THEN << >>
    ELSE (IF Head(s) \in {"\\", q} THEN <<"\\", Head(s)>>
          ELSE IF Head(s) = "\n" THEN <<"\\", "n">>
          ELSE <<Head(s)>>)
             \o Escape(Tail(s), q)

PyRepr(s) == <<QuoteOf(s)>> \o Escape(s, QuoteOf(s)) \o <<QuoteOf(s)>>

\* str(result) of the dict json.loads made of an object line, keys in the
\* order of the line
DictRepr(m) ==
    <<"{">>
        \o (IF m.type # Absent THEN <<"'type': ">> \o PyRepr(<<m.type>>) ELSE << >>)
        \o (IF m.type = "error" THEN <<", 'error': ">> \o PyRepr(m.error) ELSE << >>)
        \o (IF m.type = "tool-description" THEN <<", 'tools': [...]">> ELSE << >>)
        \o (IF m.hasOutput THEN <<", 'output': {...}">> ELSE << >>)
        \o <<"}">>

\* line.strip() in read_lines: a line of only a newline becomes ""
Strip(l) == IF l.kind = "blank" THEN EmptyLine ELSE l

\* json.loads raises JSONDecodeError
JsonFails(l) == l.kind \in {"invalid", "blank", "empty"}

\* a request model made of the schema's "required" list
RequiredFields(tool) == {tool.required[i] : i \in 1..Len(tool.required)}

\* the names of the properties a tool declares with type string
StringFields(tool) ==
    {tool.props[i][1] : i \in {j \in 1..Len(tool.props) : tool.props[j][2] = "string"}}

\* the route app.post registers for one tool of the description
Route(tool) == [path |-> tool.name, fields |-> StringFields(tool), tool |-> tool.name]

\* Starlette takes the first registered route whose path matches
RECURSIVE Match(_, _)
Match(routes, path) ==
    IF routes = << >> THEN 0
    ELSE IF Head(routes).path = path THEN 1
    ELSE IF Match(Tail(routes), path) = 0 THEN 0
    ELSE 1 + Match(Tail(routes), path)

\* a request model that requires nothing
ValidatesAnything(fields, body) == TRUE

\* the request model accepts a body that gives every field of the model
Validates(fields, body) == \A f \in fields : body[f] # Absent

\* request_data.dict(): the fields of the model, other keys dropped
InputData(fields, body) == [k \in PropNames |-> IF k \in fields THEN body[k] ELSE Absent]

\* the parameter tool=tool_name of tool_endpoint is a query parameter
\* whose default is the name the loop had when the endpoint was defined
ToolParam(route, query) == IF query = Absent THEN route.tool ELSE query

\* a handler that loses the output
SuccessBodyEmpty(result) == EmptyOutput

\* what the endpoint returns on the success path
SuccessBody(result) == result.output

\* the lines the program prints when unit u starts it
StartOf(p, u) ==
    IF p.kind = "flaky" /\ u # 0 THEN <<InvalidLine>>
    ELSE IF p.kind = "fickle" /\ u # 0 THEN <<DescLine(MultiTools)>>
    ELSE p.start

\* the unknown tool is answered with a protocol error
RepliesUnknownIsError(p, call) ==
    IF p.kind \in {"other", "flaky", "fickle"} THEN {p.reply[i] : i \in 1..Len(p.reply)}
    ELSE IF call.tool = p.start[1].tools[1].name
    THEN IF call.input["location"] = Absent
         THEN {ErrorLine(<<"'", "location", "'">>)}
         ELSE {ResultLine(Out(call.input["location"], d, Absent)) : d \in ToolData}
    ELSE {ErrorLine(<<"Unknown tool">>)}

\* handle_call and the loop body of main, for one tool-call line; a
\* program that is no tool answers with its "reply" lines
Replies(p, call) ==
    IF p.kind \in {"other", "flaky", "fickle"} THEN {p.reply[i] : i \in 1..Len(p.reply)}
    ELSE IF call.tool = p.start[1].tools[1].name
    THEN IF call.input["location"] = Absent
         THEN {ErrorLine(<<"'", "location", "'">>)}
         ELSE {ResultLine(Out(call.input["location"], d, Absent)) : d \in ToolData}
    ELSE IF p.kind = "time"
         THEN {ResultLine(Out(Absent, Absent, "Unknown tool"))}
         ELSE {ResultLine(Out(Absent, "Unknown tool", Absent))}

\* a tool that answers nothing but tool-calls
SkipsJunk(p, line) == p.kind \in {"time", "weather"} /\ ~IsCall(line)

\* if msg.get("type") == "tool-call": a tool prints nothing for a message
\* of another type
Skips(p, line) ==
    p.kind \in {"time", "weather"} /\ ~IsCall(line) /\ line.junk = "other"

\* the loop body of main for one line of stdin: the result of handle_call,
\* or the error line of the except clause with str(e)
MainLoop(p, line) ==
    IF IsCall(line) THEN Replies(p, line)
    ELSE IF p.kind \notin {"time", "weather"} THEN {p.reply[i] : i \in 1..Len(p.reply)}
    ELSE IF line.junk = "invalid" THEN {ErrorLine(<<"Expecting value">>)}
    ELSE IF line.junk = "nonobject" THEN {ErrorLine(<<"'", "list", "'", " object has no attribute ", "'", "get", "'">>)}
    ELSE {ErrorLine(<<"'", "tool", "'">>)}

(* ------------------------------- state -------------------------------- *)

VARIABLES
    prog,      \* the program --server-path names
    pc,        \* where each unit is: create_app for unit 0, a request for the others
    proc,      \* each unit's subprocess: "none", "alive", "exited", "killed"
    spawned,   \* how many times each unit called subprocess.Popen
    pipe,      \* lines written to the subprocess's stdout, not yet read
    buf,       \* stdout_buffer
    reader,    \* the thread running read_lines: "none", "running", "ended"
    stdin,     \* the lines written to the subprocess's stdin
    consumed,  \* how many of them the subprocess has read
    out,       \* every line the subprocess has printed, in order
    taken,     \* every line the unit has popped from its stdout_buffer, in order
    todo,      \* the tools the registration loop has still to process
    routes,    \* the routes registered on the app, in order
    running,   \* the request whose handler holds the event loop, 0 for none
    req,       \* each request, as sent
    ep,        \* the index in routes of the endpoint that serves the request
    resp       \* each request's response

procVars == <<proc, spawned, pipe, buf, reader, stdin, consumed, out, taken>>
appVars == <<todo, routes>>
reqVars == <<running, req, ep, resp>>
vars == <<prog, pc, procVars, appVars, reqVars>>

\* one buffer shared by every unit
SharedBuffer(u) == 0

\* stdout_buffer = []: the buffer of a unit is its own
BufferOf(u) == u

\* Popen.kill(): signals a running process, does nothing to a dead one
Kill(state) == IF state = "alive" THEN "killed" ELSE state

Init ==
    /\ prog \in Programs
    /\ pc = [u \in Units |-> IF u = 0 THEN "spawn" ELSE "idle"]
    /\ proc = [u \in Units |-> "none"]
    /\ spawned = [u \in Units |-> 0]
    /\ pipe = [u \in Units |-> << >>]
    /\ buf = [u \in Units |-> << >>]
    /\ reader = [u \in Units |-> "none"]
    /\ stdin = [u \in Units |-> << >>]
    /\ consumed = [u \in Units |-> 0]
    /\ out = [u \in Units |-> << >>]
    /\ taken = [u \in Units |-> << >>]
    /\ todo = << >>
    /\ routes = << >>
    /\ running = 0
    /\ req = [r \in Reqs |-> NoRequest]
    /\ ep = [r \in Reqs |-> 0]
    /\ resp = [r \in Reqs |-> NoResp]

(* --------------------------- the subprocess --------------------------- *)

Emit(u, l) ==
    /\ pipe' = [pipe EXCEPT ![u] = Append(@, l)]
    /\ out' = [out EXCEPT ![u] = Append(@, l)]

\* the program starts: describe_tools() in main() of a tool, before
\* anything is read
ProcStart(u) ==
    /\ proc[u] = "alive"
    /\ Len(out[u]) < Len(StartOf(prog, u))
    /\ Emit(u, StartOf(prog, u)[Len(out[u]) + 1])
    /\ UNCHANGED <<prog, pc, proc, spawned, buf, reader, stdin, consumed, taken, appVars, reqVars>>

\* one round of "for line in sys.stdin" in main() of a tool
ProcReply(u) ==
    /\ proc[u] = "alive"
    /\ Len(out[u]) >= Len(StartOf(prog, u))
    /\ consumed[u] < Len(stdin[u])
    /\ LET line == stdin[u][consumed[u] + 1] IN
           IF Skips(prog, line)
           THEN UNCHANGED <<pipe, out>>
           ELSE \E l \in MainLoop(prog, line) : Emit(u, l)
    /\ consumed' = [consumed EXCEPT ![u] = @ + 1]
    /\ UNCHANGED <<prog, pc, proc, spawned, buf, reader, stdin, taken, appVars, reqVars>>

\* the subprocess ends by itself (an uncaught error, an exit)
ProcExit(u) ==
    /\ proc[u] = "alive"
    /\ proc' = [proc EXCEPT ![u] = "exited"]
    /\ UNCHANGED <<prog, pc, spawned, pipe, buf, reader, stdin, consumed, out, taken, appVars, reqVars>>

(* ----------------------------- read_lines ----------------------------- *)

\* a reader that puts each line in front of the buffer
ReaderReadLifo(u) ==
    /\ reader[u] = "running"
    /\ pipe[u] # << >>
    /\ buf' = [buf EXCEPT ![BufferOf(u)] = <<Strip(Head(pipe[u]))>> \o @]
    /\ pipe' = [pipe EXCEPT ![u] = Tail(@)]
    /\ UNCHANGED <<prog, pc, proc, spawned, reader, stdin, consumed, out, taken, appVars, reqVars>>

\* readline() returns a line: append it, stripped
ReaderRead(u) ==
    /\ reader[u] = "running"
    /\ pipe[u] # << >>
    /\ buf' = [buf EXCEPT ![BufferOf(u)] = Append(@, Strip(Head(pipe[u])))]
    /\ pipe' = [pipe EXCEPT ![u] = Tail(@)]
    /\ UNCHANGED <<prog, pc, proc, spawned, reader, stdin, consumed, out, taken, appVars, reqVars>>

\* a reader that takes a blank line for the end of the stream
ReaderEOFOnBlank(u) ==
    /\ reader[u] = "running"
    /\ \/ pipe[u] = << >> /\ proc[u] \in {"exited", "killed"}
       \/ pipe[u] # << >> /\ Head(pipe[u]).kind = "blank"
    /\ reader' = [reader EXCEPT ![u] = "ended"]
    /\ UNCHANGED <<prog, pc, proc, spawned, pipe, buf, stdin, consumed, out, taken, appVars, reqVars>>

\* readline() returns "": the stream is at end-of-input
ReaderEOF(u) ==
    /\ reader[u] = "running"
    /\ pipe[u] = << >>
    /\ proc[u] \in {"exited", "killed"}
    /\ reader' = [reader EXCEPT ![u] = "ended"]
    /\ UNCHANGED <<prog, pc, proc, spawned, pipe, buf, stdin, consumed, out, taken, appVars, reqVars>>

(* ----------------------------- create_app ----------------------------- *)

\* a spawn that starts no reader thread
SpawnNoReader(u) ==
    /\ proc' = [proc EXCEPT ![u] = "alive"]
    /\ spawned' = [spawned EXCEPT ![u] = @ + 1]
    /\ reader' = reader

\* subprocess.Popen and the start of the reader thread
Spawn(u) ==
    /\ proc' = [proc EXCEPT ![u] = "alive"]
    /\ spawned' = [spawned EXCEPT ![u] = @ + 1]
    /\ reader' = [reader EXCEPT ![u] = "running"]

StartupSpawn ==
    /\ pc[0] = "spawn"
    /\ Spawn(0)
    /\ pc' = [pc EXCEPT ![0] = "wait_desc"]
    /\ UNCHANGED <<prog, pipe, buf, stdin, consumed, out, taken, appVars, reqVars>>

\* Popen raises (the interpreter cannot be started): create_app raises
StartupSpawnFails ==
    /\ pc[0] = "spawn"
    /\ pc' = [pc EXCEPT ![0] = "crashed"]
    /\ UNCHANGED <<prog, procVars, appVars, reqVars>>

\* "while not stdout_buffer: pass" is left once the buffer holds a line;
\* while it is empty the loop spins and the state does not change
WaitDescription(u) ==
    /\ pc[u] = "wait_desc"
    /\ buf[BufferOf(u)] # << >>
    /\ pc' = [pc EXCEPT ![u] = "pop_desc"]
    /\ UNCHANGED <<prog, procVars, appVars, reqVars>>

\* first_line = stdout_buffer.pop(0) and what create_app makes of it:
\*   not JSON: kill, RuntimeError;  JSON but no dict: desc.get raises
\*   AttributeError, nothing is killed;  a dict: tools = desc.get("tools", []),
\*   whatever its type says, and kill
StartupDescribe ==
    /\ pc[0] = "pop_desc"
    /\ LET first_line == Head(buf[BufferOf(0)]) IN
        /\ buf' = [buf EXCEPT ![BufferOf(0)] = Tail(@)]
        /\ taken' = [taken EXCEPT ![0] = Append(@, first_line)]
        /\ IF JsonFails(first_line)
           THEN /\ proc' = [proc EXCEPT ![0] = Kill(@)]
                /\ pc' = [pc EXCEPT ![0] = "crashed"]
                /\ todo' = todo
           ELSE IF first_line.kind = "nonobject"
           THEN /\ proc' = proc
                /\ pc' = [pc EXCEPT ![0] = "crashed"]
                /\ todo' = todo
           ELSE /\ proc' = [proc EXCEPT ![0] = Kill(@)]
                /\ pc' = [pc EXCEPT ![0] = "register"]
                /\ todo' = first_line.tools
    /\ UNCHANGED <<prog, spawned, pipe, reader, stdin, consumed, out, routes, reqVars>>

\* one round of "for tool in tools": the request model and the endpoint
RegisterTool ==
    /\ pc[0] = "register"
    /\ todo # << >>
    /\ routes' = Append(routes, Route(Head(todo)))
    /\ todo' = Tail(todo)
    /\ UNCHANGED <<prog, pc, procVars, reqVars>>

\* return app, and uvicorn.run(app) in run_bridge.py
StartupDone ==
    /\ pc[0] = "register"
    /\ todo = << >>
    /\ pc' = [pc EXCEPT ![0] = "serving"]
    /\ UNCHANGED <<prog, procVars, appVars, reqVars>>

(* ---------------------------- tool_endpoint --------------------------- *)

\* a client sends a request.  The bridge sees nothing of it until the event
\* loop takes it; requests are numbered in the order the loop takes them.
Arrive(r) ==
    /\ pc[0] = "serving"
    /\ pc[r] = "idle"
    /\ r = 1 \/ pc[r - 1] # "idle"
    /\ pc' = [pc EXCEPT ![r] = "sent"]
    /\ UNCHANGED <<prog, procVars, appVars, reqVars>>

Finish(r, response) ==
    /\ resp' = [resp EXCEPT ![r] = response]
    /\ pc' = [pc EXCEPT ![r] = "done"]
    /\ running' = 0

\* an event loop that starts a handler while another one runs
LoopAlwaysFree == TRUE

\* tool_endpoint is a coroutine that never awaits: while one handler runs,
\* the event loop of uvicorn.run takes no other request
LoopFree == running = 0

\* the event loop takes request r and reads it
Taken(r, request) ==
    /\ pc[r] = "sent"
    /\ \A q \in 1..(r - 1) : pc[q] \notin {"idle", "sent"}
    /\ LoopFree
    /\ req' = [req EXCEPT ![r] = request]
    /\ ep' = [ep EXCEPT ![r] = Match(routes, request.path)]

\* the request passes the router and the request model of its endpoint
Accepted(request) ==
    LET i == Match(routes, request.path) IN
        IF i = 0 THEN FALSE ELSE Validates(routes[i].fields, request.body)

\* no route: 404; a body the request model rejects: 422
Reject(r) ==
    /\ \E request \in Requests :
        /\ Taken(r, request)
        /\ ~Accepted(request)
        /\ Finish(r, IF Match(routes, request.path) = 0
                     THEN Resp(404, <<"Not Found">>, EmptyOutput)
                     ELSE Resp(422, <<"field required">>, EmptyOutput))
    /\ UNCHANGED <<prog, procVars, appVars>>

\* the handler up to reader.start()
HandlerSpawn(r) ==
    /\ \E request \in Requests :
        /\ Taken(r, request)
        /\ Accepted(request)
    /\ running' = r
    /\ Spawn(r)
    /\ pc' = [pc EXCEPT ![r] = "wait_desc"]
    /\ UNCHANGED <<prog, pipe, buf, stdin, consumed, out, taken, appVars, resp>>

\* Popen raises in the handler: an unhandled exception, 500
HandlerSpawnFails(r) ==
    /\ \E request \in Requests :
        /\ Taken(r, request)
        /\ Accepted(request)
    /\ Finish(r, Resp(500, <<"Internal Server Error">>, EmptyOutput))
    /\ UNCHANGED <<prog, procVars, appVars>>

\* a handler that registers the tools its own subprocess describes
DiscardDescriptionRegisters(r) ==
    /\ pc[r] = "pop_desc"
    /\ taken' = [taken EXCEPT ![r] = Append(@, Head(buf[BufferOf(r)]))]
    /\ buf' = [buf EXCEPT ![BufferOf(r)] = Tail(@)]
    /\ pc' = [pc EXCEPT ![r] = "write"]
    /\ routes' = LET l == Head(buf[BufferOf(r)]) IN
                     IF l.kind = "object" /\ l.type = "tool-description"
                     THEN [i \in 1..Len(l.tools) |-> Route(l.tools[i])]
                     ELSE routes
    /\ UNCHANGED <<prog, proc, spawned, pipe, reader, stdin, consumed, out, todo, reqVars>>

\* stdout_buffer.pop(0): the first line is discarded unread
DiscardDescription(r) ==
    /\ pc[r] = "pop_desc"
    /\ taken' = [taken EXCEPT ![r] = Append(@, Head(buf[BufferOf(r)]))]
    /\ buf' = [buf EXCEPT ![BufferOf(r)] = Tail(@)]
    /\ pc' = [pc EXCEPT ![r] = "write"]
    /\ UNCHANGED <<prog, proc, spawned, pipe, reader, stdin, consumed, out, appVars, reqVars>>

\* the tool-call the handler writes
CallOf(r) ==
    ToolCall(ToolParam(routes[ep[r]], req[r].query),
             InputData(routes[ep[r]].fields, req[r].body))

\* a handler that writes its tool-call a second time
WriteCallTwice(r) ==
    /\ pc[r] = "write"
    /\ IF proc[r] = "alive"
       THEN /\ stdin' = [stdin EXCEPT ![r] = @ \o <<CallOf(r), CallOf(r)>>]
            /\ pc' = [pc EXCEPT ![r] = "wait_result"]
            /\ UNCHANGED <<running, resp>>
       ELSE /\ Finish(r, Resp(500, <<"Internal Server Error">>, EmptyOutput))
            /\ stdin' = stdin
    /\ UNCHANGED <<prog, proc, spawned, pipe, buf, reader, consumed, out, taken, appVars, req, ep>>

\* stdin.write and flush; to a dead subprocess they raise BrokenPipeError,
\* an unhandled exception
WriteCall(r) ==
    /\ pc[r] = "write"
    /\ IF proc[r] = "alive"
       THEN /\ stdin' = [stdin EXCEPT ![r] = Append(@, CallOf(r))]
            /\ pc' = [pc EXCEPT ![r] = "wait_result"]
            /\ UNCHANGED <<running, resp>>
       ELSE /\ Finish(r, Resp(500, <<"Internal Server Error">>, EmptyOutput))
            /\ stdin' = stdin
    /\ UNCHANGED <<prog, proc, spawned, pipe, buf, reader, consumed, out, taken, appVars, req, ep>>

\* the second "while not stdout_buffer: pass"
WaitResult(r) ==
    /\ pc[r] = "wait_result"
    /\ buf[BufferOf(r)] # << >>
    /\ pc' = [pc EXCEPT ![r] = "pop_result"]
    /\ UNCHANGED <<prog, procVars, appVars, reqVars>>

\* a handler that answers result.get("output", {}) for any object
ResultResponseLenient(line) ==
    IF JsonFails(line)
    THEN Resp(500, <<"Invalid response from tool">>, EmptyOutput)
    ELSE IF line.kind = "nonobject"
    THEN Resp(500, <<"Internal Server Error">>, EmptyOutput)
    ELSE Resp(200, << >>, line.output)

\* what the handler answers for the line it took as the result
ResultResponse(line) ==
    IF JsonFails(line)
    THEN Resp(500, <<"Invalid response from tool">>, EmptyOutput)
    ELSE IF line.kind = "nonobject"
    THEN Resp(500, <<"Internal Server Error">>, EmptyOutput)
    ELSE IF line.type # "tool-result" \/ ~line.hasOutput
    THEN Resp(500, <<"Unexpected response: ">> \o DictRepr(line), EmptyOutput)
    ELSE Resp(200, << >>, SuccessBody(line))

\* every path of the handler's end calls server_proc.kill(), but for
\* result.get raising AttributeError on JSON that is no dict
KillsAfter(line) == line.kind # "nonobject"

\* result_line = stdout_buffer.pop(0) to the end of the handler
TakeResult(r) ==
    /\ pc[r] = "pop_result"
    /\ LET result_line == Head(buf[BufferOf(r)]) IN
        /\ buf' = [buf EXCEPT ![BufferOf(r)] = Tail(@)]
        /\ taken' = [taken EXCEPT ![r] = Append(@, result_line)]
        /\ proc' = [proc EXCEPT ![r] = IF KillsAfter(result_line) THEN Kill(@) ELSE @]
        /\ Finish(r, ResultResponse(result_line))
    /\ UNCHANGED <<prog, spawned, pipe, reader, stdin, consumed, out, appVars, req, ep>>

(* --------------------------- specification ---------------------------- *)

\* the steps of create_app, of one handler, of either
StartupStep ==
    \/ StartupSpawn
    \/ StartupSpawnFails
    \/ WaitDescription(0)
    \/ StartupDescribe
    \/ RegisterTool
    \/ StartupDone

HandlerStep(r) ==
    \/ WaitDescription(r)
    \/ DiscardDescription(r)
    \/ WriteCall(r)
    \/ WaitResult(r)
    \/ TakeResult(r)

UnitStep(u) == IF u = 0 THEN StartupStep ELSE HandlerStep(u)

Bridge ==
    \/ StartupSpawn
    \/ StartupSpawnFails
    \/ StartupDescribe
    \/ RegisterTool
    \/ StartupDone
    \/ \E u \in Units : WaitDescription(u)
    \/ \E r \in Reqs : Arrive(r)
    \/ \E r \in Reqs : Reject(r)
    \/ \E r \in Reqs : HandlerSpawn(r)
    \/ \E r \in Reqs : HandlerSpawnFails(r)
    \/ \E r \in Reqs : DiscardDescription(r)
    \/ \E r \in Reqs : WriteCall(r)
    \/ \E r \in Reqs : WaitResult(r)
    \/ \E r \in Reqs : TakeResult(r)

Environment ==
    \/ \E u \in Units : ProcStart(u)
    \/ \E u \in Units : ProcReply(u)
    \/ \E u \in Units : ProcExit(u)
    \/ \E u \in Units : ReaderRead(u)
    \/ \E u \in Units : ReaderEOF(u)

Next == Bridge \/ Environment

Spec == Init /\ [][Next]_vars

\* the steps of the bridge's own thread: create_app, then the event loop
\* of uvicorn.run and the handler it runs
BridgeRun ==
    \/ StartupStep
    \/ \E r \in Reqs : Reject(r) \/ HandlerSpawn(r) \/ HandlerSpawnFails(r) \/ HandlerStep(r)

\* the steps of the thread that runs read_lines for unit u
Reader(u) == ReaderRead(u) \/ ReaderEOF(u)

\* the steps of main() in the subprocess of unit u
ProcRun(u) == ProcStart(u) \/ ProcReply(u)

\* Threads and live processes that can run do run: the bridge's thread, each
\* reader thread (a daemon thread the interpreter keeps scheduling while the
\* waits spin) and each subprocess.  Clients need not send requests and a
\* subprocess need not exit.
FairSpec ==
    /\ Spec
    /\ WF_vars(BridgeRun)
    /\ \A u \in Units : WF_vars(Reader(u))
    /\ \A u \in Units : WF_vars(ProcRun(u))

(* ------------------------- a tool on its own -------------------------- *)

\* A tool started by a client other than the bridge: the subprocess of unit
\* 0 runs main() while the client writes lines to its stdin; nothing of the
\* bridge runs.
ToolInit ==
    /\ prog \in {TimeProgram, WeatherProgram}
    /\ pc = [u \in Units |-> "off"]
    /\ proc = [u \in Units |-> IF u = 0 THEN "alive" ELSE "none"]
    /\ spawned = [u \in Units |-> IF u = 0 THEN 1 ELSE 0]
    /\ pipe = [u \in Units |-> << >>]
    /\ buf = [u \in Units |-> << >>]
    /\ reader = [u \in Units |-> "none"]
    /\ stdin = [u \in Units |-> << >>]
    /\ consumed = [u \in Units |-> 0]
    /\ out = [u \in Units |-> << >>]
    /\ taken = [u \in Units |-> << >>]
    /\ todo = << >>
    /\ routes = << >>
    /\ running = 0
    /\ req = [r \in Reqs |-> NoRequest]
    /\ ep = [r \in Reqs |-> 0]
    /\ resp = [r \in Reqs |-> NoResp]

\* the client writes one more line
Feed ==
    /\ Len(stdin[0]) < MaxFeed
    /\ \E line \in InputLines : stdin' = [stdin EXCEPT ![0] = Append(@, line)]
    /\ UNCHANGED <<prog, pc, proc, spawned, pipe, buf, reader, consumed, out, taken, appVars, reqVars>>

ToolNext ==
    \/ Feed
    \/ ProcStart(0)
    \/ ProcReply(0)
    \/ ProcExit(0)

ToolSpec == ToolInit /\ [][ToolNext]_vars

(* -------------------------- the Flask server -------------------------- *)

\* src/mcp-server/server.py: the units 1..NumReq are requests to /weather
\* and /time; each runs the tool script by subprocess.run, which hands it
\* the tool-call, waits for it to end and collects all it printed.  prog is
\* what the tool scripts do.

\* a dict {"error": msg}
ErrOut(msg) == Out(Absent, Absent, msg)

\* a script that prints much before and after its result
NoisyProgram ==
    Program("other",
            <<BlankLine, DescLine(TimeTools), ErrorLine(Boom), InvalidLine, NoOutputLine,
              NonObjectLine, NoTypeLine, ResultLine(StaleOutput)>>,
            <<ResultLine(Out("Paris", "noon", Absent))>>)

FlaskPrograms ==
    {TimeProgram, WeatherProgram, StaleProgram, NoisyProgram, Program("other", << >>, << >>)}
        \cup {Program("other", <<DescLine(TimeTools)>>, r) : r \in OtherReplies}

\* the requests sent to the Flask server: JSON objects with a location, an
\* empty location or none
FlaskRequests ==
    {Request(path, Body(loc, Absent, Absent), Absent) :
         path \in {"weather", "time"}, loc \in {"Paris", "", Absent}}

\* a check that takes the empty string for a location
HasLocationKey(body) == body["location"] # Absent

\* location = data.get("location", ""); if not location
HasLocation(body) == body["location"] \notin {Absent, ""}

\* the tool name each endpoint passes to call_mcp_tool
FlaskTool(path) == IF path = "weather" THEN "get-forecast" ELSE "get-time"

\* the output of the first line that is an object, whatever its type
RECURSIVE FirstObject(_)
FirstObject(lines) ==
    IF lines = << >> THEN ErrOut("No valid tool result found")
    ELSE IF Head(lines).kind = "object" THEN Head(lines).output
    ELSE FirstObject(Tail(lines))

\* the loop over the lines of stdout: json.loads, data.get("type") and
\* data["output"] inside a try whose except clause goes on to the next line
RECURSIVE FirstResult(_)
FirstResult(lines) ==
    IF lines = << >> THEN ErrOut("No valid tool result found")
    ELSE IF /\ Head(lines).kind = "object"
            /\ Head(lines).type = "tool-result"
            /\ Head(lines).hasOutput
         THEN Head(lines).output
    ELSE FirstResult(Tail(lines))

\* what call_mcp_tool returns once subprocess.run has returned
CallMcpTool(state, lines) ==
    IF state = "exited" THEN FirstResult(lines) ELSE ErrOut("Tool execution failed")

FlaskInit ==
    /\ prog \in FlaskPrograms
    /\ pc = [u \in Units |-> IF u = 0 THEN "off" ELSE "idle"]
    /\ proc = [u \in Units |-> "none"]
    /\ spawned = [u \in Units |-> 0]
    /\ pipe = [u \in Units |-> << >>]
    /\ buf = [u \in Units |-> << >>]
    /\ reader = [u \in Units |-> "none"]
    /\ stdin = [u \in Units |-> << >>]
    /\ consumed = [u \in Units |-> 0]
    /\ out = [u \in Units |-> << >>]
    /\ taken = [u \in Units |-> << >>]
    /\ todo = << >>
    /\ routes = << >>
    /\ running = 0
    /\ req = [r \in Reqs |-> NoRequest]
    /\ ep = [r \in Reqs |-> 0]
    /\ resp = [r \in Reqs |-> NoResp]

\* weather() or time() answers request r
FlaskAnswer(r, response) ==
    /\ resp' = [resp EXCEPT ![r] = response]
    /\ pc' = [pc EXCEPT ![r] = "done"]

\* no location, or an empty one: 400 before anything is run
FlaskMissing(r) ==
    /\ pc[r] = "idle"
    /\ \E request \in FlaskRequests :
        /\ ~HasLocation(request.body)
        /\ req' = [req EXCEPT ![r] = request]
    /\ FlaskAnswer(r, Resp(400, << >>, ErrOut("Missing location")))
    /\ UNCHANGED <<prog, procVars, appVars, running, ep>>

\* call_mcp_tool up to the start of the subprocess, which gets the
\* tool-call as its whole input
FlaskRun(r) ==
    /\ pc[r] = "idle"
    /\ \E request \in FlaskRequests :
        /\ HasLocation(request.body)
        /\ req' = [req EXCEPT ![r] = request]
        /\ stdin' = [stdin EXCEPT ![r] =
                         <<ToolCall(FlaskTool(request.path),
                                    Body(request.body["location"], Absent, Absent))>>]
    /\ proc' = [proc EXCEPT ![r] = "alive"]
    /\ spawned' = [spawned EXCEPT ![r] = @ + 1]
    /\ pc' = [pc EXCEPT ![r] = "run"]
    /\ UNCHANGED <<prog, pipe, buf, reader, consumed, out, taken, appVars, running, ep, resp>>

\* subprocess.run raises (the interpreter cannot be started): the
\* exception is caught and {"error": str(e)} returned
FlaskRunFails(r) ==
    /\ pc[r] = "idle"
    /\ \E request \in FlaskRequests :
        /\ HasLocation(request.body)
        /\ req' = [req EXCEPT ![r] = request]
    /\ FlaskAnswer(r, Resp(200, << >>, ErrOut("No such file or directory")))
    /\ UNCHANGED <<prog, procVars, appVars, running, ep>>

\* the script ends with an exit code that is not 0
ProcCrash(u) ==
    /\ proc[u] = "alive"
    /\ proc' = [proc EXCEPT ![u] = "failed"]
    /\ UNCHANGED <<prog, pc, spawned, pipe, buf, reader, stdin, consumed, out, taken, appVars, reqVars>>

\* timeout=10: subprocess.run kills the script and raises TimeoutExpired,
\* which is caught
FlaskTimeout(r) ==
    /\ pc[r] = "run"
    /\ proc[r] = "alive"
    /\ proc' = [proc EXCEPT ![r] = Kill(@)]
    /\ FlaskAnswer(r, Resp(200, << >>, ErrOut("timed out after 10 seconds")))
    /\ UNCHANGED <<prog, spawned, pipe, buf, reader, stdin, consumed, out, taken, appVars, running, req, ep>>

\* subprocess.run returns: the script has ended
FlaskReturn(r) ==
    /\ pc[r] = "run"
    /\ proc[r] \in {"exited", "failed"}
    /\ FlaskAnswer(r, Resp(200, << >>, CallMcpTool(proc[r], out[r])))
    /\ UNCHANGED <<prog, procVars, appVars, running, req, ep>>

FlaskNext ==
    \/ \E r \in Reqs : FlaskMissing(r)
    \/ \E r \in Reqs : FlaskRun(r)
    \/ \E r \in Reqs : FlaskRunFails(r)
    \/ \E r \in Reqs : FlaskTimeout(r)
    \/ \E r \in Reqs : FlaskReturn(r)
    \/ \E r \in Reqs : ProcStart(r)
    \/ \E r \in Reqs : ProcReply(r)
    \/ \E r \in Reqs : ProcExit(r)
    \/ \E r \in Reqs : ProcCrash(r)

FlaskSpec == FlaskInit /\ [][FlaskNext]_vars

(* ------------------------------- claims ------------------------------- *)

\* no line will ever reach the buffer of unit u: nothing is buffered or in
\* the pipe, and the subprocess (dead, or alive and silent) prints nothing
Quiet(u) ==
    /\ buf[BufferOf(u)] = << >>
    /\ pipe[u] = << >>
    /\ ~ENABLED ProcStart(u)
    /\ ~ENABLED ProcReply(u)

\* C1: a unit that waits for the description line of a subprocess that will
\* never print one does not wait forever: it can take a step (time out).
C1_DescribeTimesOut ==
    \A u \in Units : (pc[u] = "wait_desc" /\ Quiet(u)) => ENABLED UnitStep(u)

\* C2: a handler that has written its tool-call and waits for the result of
\* a subprocess that prints no further line does not wait forever: it can
\* take a step (time out and kill the subprocess).
C2_ResultTimesOut ==
    \A r \in Reqs : (pc[r] = "wait_result" /\ Quiet(r)) => ENABLED HandlerStep(r)

\* the handler of r finished on a line {type: "error", error: e}
ErrorAnswered(r) ==
    /\ pc[r] = "done"
    /\ Len(taken[r]) = 2
    /\ taken[r][2].kind = "object"
    /\ taken[r][2].type = "error"

\* repr leaves the string as it is
Plain(e) ==
    /\ ~HasChar(e, "\\")
    /\ ~HasChar(e, "\n")
    /\ ~(HasChar(e, "'") /\ HasChar(e, "\""))

\* C3, as claimed: an error message {type: "error", error: e} is answered
\* with a failure whose body contains the string e.
C3_ErrorStringInBody ==
    \A r \in Reqs :
        ErrorAnswered(r) =>
            /\ resp[r].status # 200
            /\ Contains(resp[r].detail, taken[r][2].error)

\* C3, amended: an error message {type: "error", error: e} is answered with
\* status 500 and a detail that contains Python's repr of e, which is e
\* itself between quotes when e has no backslash, no newline and not both
\* kinds of quote; the answer is never a 200.
C3_ErrorReprInBody ==
    \A r \in Reqs :
        ErrorAnswered(r) =>
            /\ resp[r].status = 500
            /\ resp[r].output = EmptyOutput
            /\ Contains(resp[r].detail, PyRepr(taken[r][2].error))
            /\ Plain(taken[r][2].error) => Contains(resp[r].detail, taken[r][2].error)

C3_Witness ==
    \E r \in Reqs :
        /\ ErrorAnswered(r)
        /\ resp[r].status = 500
        /\ ~Plain(taken[r][2].error)
        /\ ~Contains(resp[r].detail, taken[r][2].error)

\* C4: every line a request takes from its buffer is a line its own
\* subprocess printed, in the order printed; a 200 response carries the
\* output of the second of them, which a tool computed from the tool name
\* and the input of this very request.
C4_OwnOutputOnly ==
    \A r \in Reqs :
        /\ \A i \in 1..Len(taken[r]) :
               /\ i <= Len(out[r])
               /\ taken[r][i] = Strip(out[r][i])
        /\ (pc[r] = "done" /\ resp[r].status = 200) =>
               /\ Len(taken[r]) = 2
               /\ resp[r].output = taken[r][2].output
               /\ prog.kind \in {"time", "weather"} =>
                      /\ stdin[r] = <<CallOf(r)>>
                      /\ out[r][2] \in Replies(prog, CallOf(r))
                      /\ resp[r].output.location \in {req[r].body["location"], Absent}

C4_Witness ==
    /\ pc[1] = "done"
    /\ pc[2] = "done"
    /\ resp[1].status = 200
    /\ resp[2].status = 200
    /\ req[1].path = req[2].path
    /\ req[1].query # req[2].query
    /\ resp[1].output.location = "Paris"
    /\ resp[2].output.error = "Unknown tool"

\* C5: when the startup discovery or a handler has ended, on whatever path,
\* the subprocess it spawned is not alive.
C5_SubprocessDeadAtEnd ==
    /\ pc[0] \in {"register", "serving", "crashed"} => proc[0] # "alive"
    /\ \A r \in Reqs : pc[r] = "done" => proc[r] # "alive"

\* the event loop took request r, whose body lacks a field of the request
\* model of its endpoint
MissingField(r) ==
    /\ pc[r] \notin {"idle", "sent"}
    /\ ep[r] # 0
    /\ \E f \in routes[ep[r]].fields : req[r].body[f] = Absent

\* C6: a request whose body lacks a field of the request schema is answered
\* 422; no subprocess is spawned for it and no tool-call is written.
C6_MissingFieldIs422 ==
    \A r \in Reqs :
        MissingField(r) =>
            /\ pc[r] = "done"
            /\ resp[r].status = 422
            /\ spawned[r] = 0
            /\ proc[r] = "none"
            /\ reader[r] = "none"
            /\ stdin[r] = << >>

C6_Witness ==
    \E r \in Reqs : MissingField(r) /\ resp[r].status = 422

\* the tool declares a property that is not a string
NonString(tool) == \E i \in 1..Len(tool.props) : tool.props[i][2] # "string"

\* C7: once the bridge serves, no tool of the description that declares a
\* non-string property has an endpoint.
C7_NonStringRejected ==
    pc[0] = "serving" =>
        \A j \in 1..Len(taken[0][1].tools) :
            NonString(taken[0][1].tools[j]) => Match(routes, taken[0][1].tools[j].name) = 0

IsDescription(l) == l.kind = "object" /\ l.type = "tool-description"

\* C8: a unit whose first line is no tool-description writes no tool-call;
\* the startup discovery ends with an error and its subprocess is killed.
C8_FirstLineMustDescribe ==
    \A u \in Units :
        (taken[u] # << >> /\ ~IsDescription(taken[u][1])) =>
            /\ stdin[u] = << >>
            /\ u = 0 => (pc[0] = "crashed" /\ proc[0] # "alive")

WellFormedResult(l) == l.kind = "object" /\ l.type = "tool-result" /\ l.hasOutput

\* C9: a handler that ends on a line {type: "tool-result", output: o}
\* answers 200 with a body equal to o.
C9_SuccessReturnsOutput ==
    \A r \in Reqs :
        (pc[r] = "done" /\ Len(taken[r]) = 2 /\ WellFormedResult(taken[r][2])) =>
            resp[r] = Resp(200, << >>, taken[r][2].output)

C9_Witness ==
    \E r \in Reqs :
        /\ pc[r] = "done"
        /\ resp[r].status = 200
        /\ resp[r].output # EmptyOutput
        /\ resp[r].output = out[r][2].output

\* C10: every tool-call a handler writes names the tool of the endpoint the
\* request was sent to, a tool of the description read at startup, and
\* carries the validated request body.
C10_ToolFieldIsEndpointName ==
    \A r \in Reqs :
        \A i \in 1..Len(stdin[r]) :
            /\ stdin[r][i].tool = req[r].path
            /\ stdin[r][i].input = InputData(routes[ep[r]].fields, req[r].body)
            /\ \E j \in 1..Len(taken[0][1].tools) :
                   taken[0][1].tools[j].name = stdin[r][i].tool

\* the handler of r ended on a second line that is no well-formed result
MalformedAnswered(r) ==
    /\ pc[r] = "done"
    /\ Len(taken[r]) = 2
    /\ ~WellFormedResult(taken[r][2])

\* C11: a handler whose result line is empty, is not JSON, or is JSON whose
\* type is absent or not tool-result or that has no output, answers 500 with
\* a body that says so, never 200, and its subprocess is not left alive.
C11_MalformedResultIs500 ==
    \A r \in Reqs :
        MalformedAnswered(r) =>
            /\ resp[r].status = 500
            /\ resp[r].detail \notin {<< >>, <<"Internal Server Error">>}
            /\ proc[r] # "alive"

\* the call of q waits for a line of a subprocess that will print none
Failing(q) == pc[q] \in {"wait_desc", "wait_result"} /\ Quiet(q)

\* C12: the failure of one call is confined to it: a request that is sent
\* while another call waits on a subprocess that exited early or stays
\* silent is answered in the end all the same.
C12_FailureIsConfined ==
    \A r \in Reqs :
        (pc[r] = "sent" /\ \E q \in Reqs \ {r} : Failing(q)) ~> (pc[r] = "done")

\* the lines as read_lines appends them
StripAll(lines) == [i \in 1..Len(lines) |-> Strip(lines[i])]

\* C13: however the reader thread and the consumer interleave, the lines
\* the consumer has removed, then the lines in the buffer, then the lines
\* not yet read are the lines the subprocess printed, in that order, each
\* once; and the consumer pops only from a buffer that holds a line.
C13_ConsumerTakesPrefix ==
    \A u \in Units :
        /\ taken[u] \o buf[u] \o StripAll(pipe[u]) = StripAll(out[u])
        /\ pc[u] \in {"pop_desc", "pop_result"} => buf[u] # << >>

\* the reader appended a second line between the consumer's emptiness test
\* and its pop
C13_Witness ==
    \E r \in Reqs :
        /\ pc[r] = "pop_desc"
        /\ Len(buf[r]) = 2
        /\ buf[r][1] # buf[r][2]

\* the subprocess of u has exited or was killed
Dead(u) == proc[u] \in {"exited", "killed"}

\* C14: once the subprocess of a unit is dead its reader stops in the end;
\* a reader stops only at the end of the stream, with every line the
\* subprocess printed read, blank ones included; a reader that has stopped
\* stays stopped and its buffer gets no further line.
C14_ReaderStopsAtEOF ==
    /\ \A u \in Units : Dead(u) ~> (reader[u] = "ended")
    /\ [](\A u \in Units : reader[u] = "ended" => (Dead(u) /\ pipe[u] = << >>))
    /\ [][\A u \in Units :
              reader[u] = "ended" =>
                  (reader'[u] = "ended" /\ Len(buf'[u]) <= Len(buf[u]))]_vars

\* a reader that read a blank line as a line and stopped later, at the end
\* of the stream
C14_Witness ==
    \E u \in Units :
        /\ reader[u] = "ended"
        /\ out[u] # << >>
        /\ out[u][1].kind = "blank"
        /\ taken[u] = <<EmptyLine>>

\* the unit has not reached subprocess.Popen
NotStarted(u) == spawned[u] = 0

\* C15: a live subprocess has its one reader running; a unit spawns at most
\* one subprocess, and the subprocess, pipe, reader and buffer of a unit that
\* has spawned none are untouched; the stdin of a subprocess holds only what
\* its own handler wrote, and nothing is written to the startup subprocess;
\* each buffer and pipe hold lines of the unit's own subprocess only.
C15_HandleOwnedByOneUnit ==
    \A u \in Units :
        /\ proc[u] = "alive" => reader[u] = "running"
        /\ spawned[u] <= 1
        /\ NotStarted(u) =>
               /\ proc[u] = "none"
               /\ reader[u] = "none"
               /\ buf[u] = << >>
               /\ pipe[u] = << >>
               /\ out[u] = << >>
               /\ stdin[u] = << >>
        /\ ~NotStarted(u) => (proc[u] # "none" /\ reader[u] # "none")
        /\ stdin[0] = << >>
        /\ u # 0 => \A i \in 1..Len(stdin[u]) : stdin[u][i] = CallOf(u)
        /\ Len(taken[u]) + Len(buf[u]) + Len(pipe[u]) = Len(out[u])
        /\ \A i \in 1..Len(buf[u]) : buf[u][i] = Strip(out[u][Len(taken[u]) + i])

\* two subprocesses alive at once (the first was left running by a handler
\* that ended without killing it), each with its own reader
C15_Witness ==
    /\ proc[1] = "alive"
    /\ proc[2] = "alive"
    /\ reader[1] = "running"
    /\ reader[2] = "running"
    /\ buf[2] # << >>

\* the names of the properties of a tool whose declared type is string
DeclaredStrings(tool) ==
    {n \in PropNames : \E i \in 1..Len(tool.props) : tool.props[i] = <<n, "string">>}

\* C16: while the bridge serves, whatever requests it has handled, its
\* endpoints are those of the description read at startup, one per tool, in
\* order, each with the request schema made of that tool's string
\* properties; what the per-call subprocesses describe changes nothing.
C16_EndpointsFixedAtStartup ==
    pc[0] = "serving" =>
        /\ Len(taken[0]) = 1
        /\ todo = << >>
        /\ Len(routes) = Len(taken[0][1].tools)
        /\ \A i \in 1..Len(routes) :
               /\ routes[i].path = taken[0][1].tools[i].name
               /\ routes[i].tool = taken[0][1].tools[i].name
               /\ routes[i].fields = DeclaredStrings(taken[0][1].tools[i])

\* a request was served, and one failed, by subprocesses that described
\* other tools than the startup subprocess did
C16_Witness ==
    /\ pc[0] = "serving"
    /\ pc[1] = "done"
    /\ pc[2] = "done"
    /\ resp[1].status = 200
    /\ resp[2].status = 500
    /\ IsDescription(taken[1][1])
    /\ taken[1][1].tools # taken[0][1].tools

\* how far a request is: not taken; Spawned; DescribedReady;
\* AwaitingResult; Terminated
Stage(r) ==
    CASE pc[r] \in {"idle", "sent"} -> 0
      [] pc[r] \in {"wait_desc", "pop_desc"} -> 1
      [] pc[r] = "write" -> 2
      [] pc[r] \in {"wait_result", "pop_result"} -> 3
      [] pc[r] = "done" -> 4

\* C17: a request never moves back to an earlier stage; it spawns one
\* subprocess at most; Spawned: nothing taken, nothing written;
\* DescribedReady: the first line taken, nothing written; AwaitingResult:
\* the call written once, after the first line was taken; Terminated: at
\* most one call written, at most two lines taken, the second of them the
\* second line of the subprocess and taken after the call was written.
C17_HandleMovesForward ==
    /\ [][\A r \in Reqs : Stage(r)' >= Stage(r)]_vars
    /\ [](\A r \in Reqs :
              /\ spawned[r] <= 1
              /\ Stage(r) = 0 => (spawned[r] = 0 /\ taken[r] = << >> /\ stdin[r] = << >>)
              /\ Stage(r) = 1 => (spawned[r] = 1 /\ taken[r] = << >> /\ stdin[r] = << >>)
              /\ Stage(r) = 2 => (spawned[r] = 1 /\ Len(taken[r]) = 1 /\ stdin[r] = << >>)
              /\ Stage(r) = 3 => (spawned[r] = 1 /\ Len(taken[r]) = 1 /\ Len(stdin[r]) = 1)
              /\ Stage(r) = 4 =>
                     /\ Len(stdin[r]) <= 1
                     /\ Len(taken[r]) <= 2
                     /\ stdin[r] # << >> => Len(taken[r]) >= 1
                     /\ Len(taken[r]) = 2 =>
                            (Len(stdin[r]) = 1 /\ taken[r][2] = Strip(out[r][2])))

\* a call that failed on its result line, after one spawn and one write,
\* and was not tried again
C17_Witness ==
    \E r \in Reqs :
        /\ pc[r] = "done"
        /\ resp[r].status = 500
        /\ spawned[r] = 1
        /\ Len(stdin[r]) = 1
        /\ Len(taken[r]) = 2

\* the one tool the program describes
ToolName == prog.start[1].tools[1].name

\* every line but a message of another type gets a reply
Answered(line) == IsCall(line) \/ line.junk \in {"invalid", "nonobject", "nokey"}

\* how many of the first n lines get a reply
RECURSIVE NumAnswered(_, _)
NumAnswered(lines, n) ==
    IF n = 0 THEN 0
    ELSE NumAnswered(lines, n - 1) + (IF Answered(lines[n]) THEN 1 ELSE 0)

\* the line of stdout that answers line i of stdin
ReplyTo(i) == out[0][1 + NumAnswered(stdin[0], i)]

UnknownCall(line) == IsCall(line) /\ line.tool # ToolName

\* C18: a tool answers a tool-call that names a tool it does not have with
\* a tool-result whose output carries "Unknown tool", not with an error
\* message; and while it lives and has lines to read it goes on answering.
C18_UnknownToolIsResult ==
    /\ \A i \in 1..consumed[0] :
           UnknownCall(stdin[0][i]) =>
               /\ ReplyTo(i).kind = "object"
               /\ ReplyTo(i).type = "tool-result"
               /\ ReplyTo(i).hasOutput
               /\ "Unknown tool" \in {ReplyTo(i).output.error, ReplyTo(i).output.data}
               /\ ReplyTo(i).output.location = Absent
    /\ (proc[0] = "alive" /\ out[0] # << >> /\ consumed[0] < Len(stdin[0])) =>
           ENABLED ProcReply(0)

\* an unknown tool was called first and the call after it was answered
C18_Witness ==
    /\ consumed[0] = 2
    /\ UnknownCall(stdin[0][1])
    /\ IsCall(stdin[0][2])
    /\ stdin[0][2].tool = ToolName
    /\ ReplyTo(1).output # ReplyTo(2).output
    /\ ReplyTo(2).output.location = "Paris"

\* the tool whose endpoint serves request r
ToolOf(r) == taken[0][1].tools[ep[r]]

GoodCall(line) ==
    IsCall(line) /\ line.tool = ToolName /\ line.input["location"] # Absent

\* C20: a tool prints its description first, and reads nothing before; its
\* later lines are, in the order of the input, one tool-result or error
\* line for each line read that is a tool-call or that cannot be read as a
\* message, and no line for a message of another type: a tool-result for a
\* call it can serve or whose tool it does not know, an error line when
\* the call lacks a key or the line is no message.
C20_OneReplyPerInputLine ==
    /\ consumed[0] > 0 => out[0] # << >>
    /\ out[0] # << >> =>
           /\ IsDescription(out[0][1])
           /\ Len(out[0]) = 1 + NumAnswered(stdin[0], consumed[0])
    /\ \A i \in 2..Len(out[0]) :
           out[0][i].kind = "object" /\ out[0][i].type \in {"tool-result", "error"}
    /\ \A i \in 1..consumed[0] :
           Answered(stdin[0][i]) =>
               IF GoodCall(stdin[0][i])
               THEN /\ ReplyTo(i).type = "tool-result"
                    /\ ReplyTo(i).output.location = stdin[0][i].input["location"]
               ELSE IF UnknownCall(stdin[0][i])
               THEN ReplyTo(i).type = "tool-result"
               ELSE ReplyTo(i).type = "error"

\* three lines were read: a call that was served, a message of another
\* type that got no line, and a line that is no JSON, which got an error
C20_Witness ==
    /\ consumed[0] = 3
    /\ GoodCall(stdin[0][1])
    /\ stdin[0][2] = Junk("other")
    /\ stdin[0][3] = Junk("invalid")
    /\ Len(out[0]) = 3
    /\ out[0][2].type = "tool-result"
    /\ out[0][3].type = "error"

\* the places in the stdout of unit r of the lines that parse as an object
\* of type tool-result with an output field
ResultPlaces(r) == {i \in 1..Len(out[r]) : WellFormedResult(out[r][i])}

FirstPlace(r) == CHOOSE i \in ResultPlaces(r) : \A j \in ResultPlaces(r) : i <= j

\* call_mcp_tool was called for request r and has returned
Called(r) == pc[r] = "done" /\ HasLocation(req[r].body)

\* C21: call_mcp_tool of the Flask server never raises: once the script has
\* ended it returns; after exit code 0 it returns the output of the first
\* stdout line that is an object of type tool-result with an output field,
\* whatever lines come before it, and {"error": "No valid tool result found"}
\* when there is no such line; after another exit code, a timeout or an
\* exception it returns a dict with an error key.
C21_CallReturnsFirstResult ==
    \A r \in Reqs :
        /\ pc[r] = "run" /\ proc[r] # "alive" => ENABLED FlaskReturn(r)
        /\ Called(r) =>
               /\ resp[r].status = 200
               /\ IF proc[r] = "exited"
                  THEN IF ResultPlaces(r) = {}
                       THEN resp[r].output = ErrOut("No valid tool result found")
                       ELSE resp[r].output = out[r][FirstPlace(r)].output
                  ELSE resp[r].output["error"] # Absent

\* a call returned the output of a result line that came after the
\* description, an error message, unparseable lines and a result without
\* output, with a second result line behind it
C21_Witness ==
    \E r \in Reqs :
        /\ Called(r)
        /\ proc[r] = "exited"
        /\ ResultPlaces(r) # {}
        /\ FirstPlace(r) > 5
        /\ \E j \in ResultPlaces(r) :
               j > FirstPlace(r) /\ out[r][j].output # out[r][FirstPlace(r)].output

\* request r to the Flask server came without a location or with an empty one
NoLocation(r) == req[r].body["location"] = Absent \/ req[r].body["location"] = ""

\* the tool-call the endpoint of request r has to make
FlaskCallOf(r) ==
    ToolCall(IF req[r].path = "weather" THEN "get-forecast" ELSE "get-time",
             Body(req[r].body["location"], Absent, Absent))

\* C22: a POST to /weather or /time whose body has no location or an empty
\* one is answered 400 {"error": "Missing location"} and no subprocess is
\* run for it; with a location exactly one subprocess is run, and it is
\* handed the tool name get-forecast or get-time of the endpoint.  (When the
\* interpreter cannot be started there is no subprocess and the answer is
\* an error.)
C22_MissingLocationIs400 ==
    \A r \in Reqs :
        /\ pc[r] = "run" => spawned[r] = 1 /\ stdin[r] = <<FlaskCallOf(r)>>
        /\ pc[r] = "done" =>
               IF NoLocation(r)
               THEN /\ resp[r] = Resp(400, << >>, ErrOut("Missing location"))
                    /\ spawned[r] = 0
                    /\ proc[r] = "none"
                    /\ stdin[r] = << >>
               ELSE /\ resp[r].status # 400
                    /\ spawned[r] <= 1
                    /\ spawned[r] = 1 => stdin[r] = <<FlaskCallOf(r)>> /\ proc[r] # "none"
                    /\ spawned[r] = 0 => resp[r].output["error"] # Absent

\* one request with an empty location was refused and one to /weather with
\* a location ran the tool once
C22_Witness ==
    \E r, q \in Reqs :
        /\ pc[r] = "done" /\ req[r].body["location"] = "" /\ resp[r].status = 400
        /\ pc[q] = "done" /\ req[q].path = "weather" /\ ~NoLocation(q)
        /\ spawned[q] = 1 /\ stdin[q][1].tool = "get-forecast"
        /\ proc[q] = "exited"

\* the handler of request r is between its spawn and its return or raise
InProgress(r) == Stage(r) \in {1, 2, 3}

\* the handler of request q can take a step: be started or go on
CanStep(q) ==
    ENABLED (Reject(q) \/ HandlerSpawn(q) \/ HandlerSpawnFails(q) \/ HandlerStep(q))

\* C23: the handlers of the bridge never interleave: at most one is between
\* its spawn and its end at any time, and while it is, waiting or not, no
\* handler of another request can take a step, be it one that is sent and
\* not yet taken.
C23_HandlersNeverInterleave ==
    /\ \A r, q \in Reqs : InProgress(r) /\ InProgress(q) => r = q
    /\ \A r \in Reqs : InProgress(r) <=> running = r
    /\ \A r, q \in Reqs : InProgress(r) /\ q # r => ~CanStep(q)

\* a handler waits on a subprocess that will print nothing more while
\* another request has been sent
C23_Witness ==
    \E r, q \in Reqs : Failing(r) /\ pc[r] = "wait_result" /\ pc[q] = "sent"

=============================================================================
